---- MODULE Spec2Model ----
(***************************************************************************)
(* State-machine model of src/spotify-assistant.py: the three flow         *)
(* handlers authenticate_user, create_playlist and start_playlist, the     *)
(* coroutine get_user_access_token they share, the aiohttp callback        *)
(* handler handle_callback, and the two process-wide globals               *)
(* user_access_token and playlist_uri.                                     *)
(*                                                                         *)
(* Scheduling is asyncio's: one thread, a coroutine runs without           *)
(* interruption from one await to the next.  Every action below is one     *)
(* such run: it starts where an await completes and ends at the next       *)
(* await (or at the handler's return / raise).  An await on network or     *)
(* socket I/O may take any amount of time; asyncio.sleep and               *)
(* asyncio.wait_for are timers counted in ticks of one second.             *)
(*                                                                         *)
(* What the libraries do is modelled as follows.  site.start() fails with  *)
(* OSError when the port is held, by a listener of this process or by      *)
(* another process; setting up the runner and binding the local port take  *)
(* less than a second.  runner.cleanup() closes the listening socket at    *)
(* once, lets the request handlers still running finish or cancels them,   *)
(* and is over before the timeout of wait_for can fire a first time.       *)
(* wait_for, on timeout, cancels the coroutine at the await it is          *)
(* suspended at, waits for it to end and raises TimeoutError.              *)
(***************************************************************************)
EXTENDS Integers, Sequences, FiniteSets, TLC

\* ------------------------------------------------------------ constants
\* asyncio.sleep(8): the dwell before the first poll
DwellSeconds == 8
\* asyncio.sleep(1): the polling interval
PollSeconds == 1
\* asyncio.wait_for(..., timeout=20)
AuthTimeout == 20
\* response.status != 201 (playlist creation, adding tracks)
Created == 201
\* response.status != 204 (start playback)
NoContent == 204

\* ------------------------------------------------------------ bounds
\* requests to /callback whose token exchange is in flight, per listener
MaxInflight == 2

\* the concurrently running handler invocations
Tasks == {"t1", "t2"}
\* access tokens the token endpoint may issue
Tokens == {"tokA", "tokB"}
\* playlists the service may create: data["uri"], data["id"]
Playlists == {"pl1", "pl2"}
\* devices lists the service may report: data.get("devices", [])
DeviceLists == {<< >>, <<"dev1">>, <<"dev2", "dev1">>}
\* HTTP statuses the two POSTs and the PUT may return
PostStatuses == {Created, 400}
PutStatuses == {NoContent, 400}
\* the "songs" argument: strings over the characters a, b, blank and ;
SongStrings ==
    { <<"a", ";", " ", "b">>,
      <<"b", " ", ";", "b">>,
      <<"a", ";">> }

None == "None"
\* a key the LLM left out of args
Missing == "Missing"
\* what search_song returns when nothing matched (falsy, like None)
NoUri == << >>
\* the args of create_playlist: either key may be missing
ArgSets == [title : {"mix", Missing}, has_songs : BOOLEAN, songs : SongStrings]
\* the args of create_playlist where two invocations overlap
PairArgs == [title : {"mix"}, has_songs : {TRUE}, songs : {<<"a">>}]

\* ------------------------------------------------------------ pure helpers
RECURSIVE SplitAt(_, _)
\* str.split(";"): the pieces between the separators, empty pieces kept
SplitAt(s, cur) ==
    IF s = << >> THEN <<cur>>
    ELSE IF Head(s) = ";" THEN <<cur>> \o SplitAt(Tail(s), << >>)
    ELSE SplitAt(Tail(s), Append(cur, Head(s)))

RECURSIVE LStrip(_)
LStrip(s) == IF s # << >> /\ Head(s) = " " THEN LStrip(Tail(s)) ELSE s

RECURSIVE RStrip(_)
RStrip(s) ==
    IF s # << >> /\ s[Len(s)] = " " THEN RStrip(SubSeq(s, 1, Len(s) - 1)) ELSE s

\* str.strip()
Strip(s) == RStrip(LStrip(s))

\* songs = [song.strip() for song in songs_str.split(";")]
ParseSongs(str) ==
    LET parts == SplitAt(str, << >>)
    IN [k \in 1..Len(parts) |-> Strip(parts[k])]

\* items[0]["uri"] of a search that matched
TrackUri(song) == <<"track">> \o song

\* ------------------------------------------------------------ state
VARIABLES
    user_access_token,  \* global user_access_token: None or a token
    playlist_uri,       \* global playlist_uri: None or a playlist
    created_ok,         \* history: some create_playlist returned success
    tk                  \* per task: the invocation's position and locals

vars == <<user_access_token, playlist_uri, created_ok, tk>>

NoResult == [state |-> "pending", success |-> FALSE, error |-> None,
             access_token |-> None, premium |-> FALSE]

IdleTask ==
    [ kind      |-> "idle",     \* which handler runs in this task
      pc        |-> "idle",     \* the await it is suspended at
      token     |-> None,       \* local token / returned credential
      runner    |-> "none",     \* web.AppRunner: none, setup, cleaned
      site      |-> FALSE,      \* web.TCPSite bound to PORT
      sleep     |-> -1,         \* seconds left of asyncio.sleep, -1: none
      deadline  |-> -1,         \* seconds left of wait_for, -1: none
      waited    |-> 0,          \* history: seconds since the listener was bound
      cancelled |-> FALSE,      \* wait_for has cancelled the coroutine
      inflight  |-> 0,          \* handle_callback runs awaiting the token POST
      cb_failed |-> FALSE,      \* history: a callback ended without a token
      cached    |-> FALSE,      \* history: credential held when invoked
      songs     |-> << >>,      \* create_playlist: songs
      title     |-> None,       \* create_playlist: title
      i         |-> 0,          \* create_playlist: songs searched so far
      uris      |-> << >>,      \* create_playlist: uris
      playlist_id |-> None,     \* create_playlist: playlist_id
      device_id |-> None,       \* start_playlist: device_id
      context_uri |-> None,     \* start_playlist: data["context_uri"]
      log       |-> << >>,      \* history: the requests this invocation sent
      result    |-> NoResult ]

Call(op, arg, res) == [op |-> op, arg |-> arg, res |-> res]

Success == [NoResult EXCEPT !.state = "returned", !.success = TRUE]

Failure(msg) == [NoResult EXCEPT !.state = "returned", !.error = msg]

\* an exception that leaves the handler
Raised(exc) == [NoResult EXCEPT !.state = "raised", !.error = exc]

Init ==
    /\ user_access_token = None
    /\ playlist_uri = None
    /\ created_ok = FALSE
    /\ tk = [t \in Tasks |-> IdleTask]

Set(t, rec) == tk' = [tk EXCEPT ![t] = rec]

AddLog(rec, op, arg, res) == [rec EXCEPT !.log = Append(@, Call(op, arg, res))]

\* a finished invocation: its timers are gone
Finish(rec, res) ==
    [rec EXCEPT !.pc = "done", !.result = res, !.sleep = -1, !.deadline = -1]

\* ------------------------------------------------------------ get_user_access_token
\* a faulty variant of CredentialCached: the cache is never consulted
CredentialCachedNever == FALSE

\* if user_access_token:
CredentialCached == user_access_token # None

\* a faulty variant of PollDone: the loop ends at the first poll
PollDoneAlways == TRUE

\* while not user_access_token:
PollDone == user_access_token # None

\* the port of REDIRECT_URI is held by no listener of this process
PortFree == \A u \in Tasks : ~tk[u].site

\* site.start() binds localhost:PORT: the bind fails (OSError, address in
\* use) when a listener holds the port, one of this process or, ext = FALSE,
\* of another one
BindSucceeds(ext) == ext /\ PortFree

\* start_playlist, from the return of get_user_access_token to its next await
StartAfterToken(rec) ==
    IF playlist_uri = None
    THEN Finish(rec, Failure("No playlist URI found."))
    ELSE [AddLog(rec, "openPlaylist", playlist_uri, None) EXCEPT !.pc = "devices"]

\* the caller, from the return of get_user_access_token to its next await
AfterToken(rec0, tok) ==
    LET rec == [rec0 EXCEPT !.token = tok]
    IN CASE rec.kind = "auth" ->
              Finish(rec, [Success EXCEPT !.access_token = tok])
         [] rec.kind = "create" -> [rec EXCEPT !.pc = "get_user_id"]
         [] rec.kind = "start" -> StartAfterToken(rec)

\* except asyncio.TimeoutError: the only exception a handler catches around
\* get_user_access_token, and only authenticate_user does
CatchesAuthError(rec, exc) == rec.kind = "auth" /\ exc = "TimeoutError"

\* the caller, when get_user_access_token raises exc
AfterRaise(rec, exc) ==
    IF CatchesAuthError(rec, exc)
    THEN Finish(rec, Failure("Authentication timed out."))
    ELSE Finish(rec, Raised(exc))

\* get_user_access_token from its first line to its first await
GatEnter(rec) ==
    IF CredentialCached
    THEN AfterToken(rec, user_access_token)
    ELSE [rec EXCEPT !.runner = "setup", !.pc = "site_start"]

\* the task wait_for made for get_user_access_token starts running
AuthTaskStart(t) ==
    /\ tk[t].kind = "auth" /\ tk[t].pc = "gat"
    /\ Set(t, GatEnter(tk[t]))
    /\ UNCHANGED <<user_access_token, playlist_uri, created_ok>>

\* await site.start() completes; then webbrowser.open and asyncio.sleep(8)
SiteStart(t) ==
    /\ tk[t].pc = "site_start"
    /\ \E ext \in BOOLEAN :
         IF BindSucceeds(ext)
         THEN Set(t, [AddLog(AddLog(tk[t], "listen", None, "bound"),
                             "openAuthUrl", None, None)
                        EXCEPT !.site = TRUE,
                               !.pc = "dwell", !.sleep = DwellSeconds])
         ELSE Set(t, AfterRaise(AddLog(tk[t], "listen", None, "OSError"), "OSError"))
    /\ UNCHANGED <<user_access_token, playlist_uri, created_ok>>

\* finally: await runner.cleanup() begins; the listening socket closes at once
EnterCleanup(rec, cancelled) ==
    [rec EXCEPT !.pc = "cleanup", !.site = FALSE, !.sleep = -1,
                !.deadline = -1, !.cancelled = cancelled]

\* a faulty variant of Wake: the wait also ends as soon as the store is filled
WakeOnStore(t) ==
    /\ tk[t].pc \in {"dwell", "poll"}
    /\ IF PollDone
       THEN Set(t, EnterCleanup(tk[t], FALSE))
       ELSE tk[t].sleep = 0 /\ Set(t, [tk[t] EXCEPT !.pc = "poll", !.sleep = PollSeconds])
    /\ UNCHANGED <<user_access_token, playlist_uri, created_ok>>

\* a sleep ends: the while condition is read, then sleep(1) or finally
Wake(t) ==
    /\ tk[t].pc \in {"dwell", "poll"} /\ tk[t].sleep = 0
    /\ IF PollDone
       THEN Set(t, EnterCleanup(tk[t], FALSE))
       ELSE Set(t, [tk[t] EXCEPT !.pc = "poll", !.sleep = PollSeconds])
    /\ UNCHANGED <<user_access_token, playlist_uri, created_ok>>

\* a faulty variant of TimeoutDue: it fires one polling interval early
TimeoutDueEarly(t) == tk[t].deadline \in 0..PollSeconds

\* the timeout of wait_for is due
TimeoutDue(t) == tk[t].deadline = 0

\* wait_for cancels get_user_access_token at the await it is suspended at
Timeout(t) ==
    /\ tk[t].kind = "auth" /\ TimeoutDue(t)
    /\ tk[t].pc \in {"dwell", "poll"}
    /\ Set(t, EnterCleanup(tk[t], TRUE))
    /\ UNCHANGED <<user_access_token, playlist_uri, created_ok>>

\* the state of the runner once runner.cleanup() has returned
CleanedRunner == "cleaned"

\* await runner.cleanup() completes: the request handlers still running are
\* cancelled; then return user_access_token, or the CancelledError goes on
CleanupEnd(t) ==
    /\ tk[t].pc = "cleanup"
    /\ LET rec == [tk[t] EXCEPT !.runner = CleanedRunner, !.inflight = 0]
       IN IF rec.cancelled
          THEN Set(t, AfterRaise(rec, "TimeoutError"))
          ELSE Set(t, AfterToken(rec, user_access_token))
    /\ UNCHANGED <<user_access_token, playlist_uri, created_ok>>

\* ------------------------------------------------------------ handle_callback
\* GET /callback reaches the listener, with a code or with an error in its
\* query: handle_callback posts request.query.get("code") to the token
\* endpoint either way
Callback(t) ==
    /\ tk[t].site
    /\ tk[t].inflight < MaxInflight
    /\ Set(t, [tk[t] EXCEPT !.inflight = @ + 1])
    /\ UNCHANGED <<user_access_token, playlist_uri, created_ok>>

\* if "access_token" in token_data:
HasAccessToken(out) == out \in Tokens

\* the token endpoint answers one of the posts: with an access token (out is
\* the token), without one ("no_token"), or the POST fails ("error")
ExchangeDone(t, out) ==
    /\ tk[t].inflight > 0
    /\ IF HasAccessToken(out)
       THEN /\ user_access_token' = out
            /\ Set(t, [tk[t] EXCEPT !.inflight = @ - 1])
       ELSE /\ UNCHANGED user_access_token
            /\ Set(t, [tk[t] EXCEPT !.inflight = @ - 1, !.cb_failed = TRUE])
    /\ UNCHANGED <<playlist_uri, created_ok>>

\* ------------------------------------------------------------ authenticate_user
\* asyncio.wait_for(get_user_access_token(), timeout=20) is called
AuthenticateUser(t) ==
    /\ tk[t].pc = "idle"
    /\ Set(t, [IdleTask EXCEPT !.kind = "auth", !.pc = "gat",
                               !.deadline = AuthTimeout,
                               !.cached = (user_access_token # None)])
    /\ UNCHANGED <<user_access_token, playlist_uri, created_ok>>

\* ------------------------------------------------------------ create_playlist
\* args["title"], args["songs"], the split, then await tts.say(...)
CreatePlaylist(t, args) ==
    /\ tk[t].pc = "idle"
    /\ LET rec == [IdleTask EXCEPT !.kind = "create", !.cached = (user_access_token # None)]
       IN IF args.title = Missing \/ ~args.has_songs
          THEN Set(t, Finish(rec, Raised("KeyError")))
          ELSE Set(t, [rec EXCEPT !.title = args.title, !.pc = "say",
                                  !.songs = ParseSongs(args.songs)])
    /\ UNCHANGED <<user_access_token, playlist_uri, created_ok>>

\* await tts.say(...) completes; token = await get_user_access_token()
SayDone(t) ==
    /\ tk[t].pc = "say"
    /\ Set(t, GatEnter(tk[t]))
    /\ UNCHANGED <<user_access_token, playlist_uri, created_ok>>

\* except Exception as e: return {"success": False, "error": str(e)}
Caught(rec, msg) == Finish(rec, Failure(msg))

\* user_id = await get_user_id(token): data["id"] raises when the profile
\* request did not succeed
GetUserId(t, ok) ==
    /\ tk[t].pc = "get_user_id"
    /\ LET rec == AddLog(tk[t], "getProfile", None, IF ok THEN "ok" ELSE "failed")
       IN IF ok
          THEN Set(t, [rec EXCEPT !.pc = "create_req"])
          ELSE Set(t, Caught(rec, "KeyError: id"))
    /\ UNCHANGED <<user_access_token, playlist_uri, created_ok>>

\* a faulty variant of CreationFailed: only server errors count
CreationFailedOnServerError(status) == status >= 500

\* if response.status != 201: raise
CreationFailed(status) == status # Created

\* a faulty variant of CreateRequest: a filled slot is left as it is
CreateRequestKeepFirst(t, status, pl) ==
    /\ tk[t].pc = "create_req"
    /\ LET rec == AddLog(tk[t], "createPlaylist", tk[t].title, status)
       IN IF CreationFailed(status)
          THEN /\ Set(t, Caught(rec, "Failed to create playlist."))
               /\ UNCHANGED playlist_uri
          ELSE /\ playlist_uri' = IF playlist_uri = None THEN pl ELSE playlist_uri
               /\ Set(t, [rec EXCEPT !.playlist_id = pl, !.uris = << >>,
                                      !.i = 0, !.pc = "search"])
    /\ UNCHANGED <<user_access_token, created_ok>>

\* POST /users/{user_id}/playlists answers
CreateRequest(t, status, pl) ==
    /\ tk[t].pc = "create_req"
    /\ LET rec == AddLog(tk[t], "createPlaylist", tk[t].title, status)
       IN IF CreationFailed(status)
          THEN /\ Set(t, Caught(rec, "Failed to create playlist."))
               /\ UNCHANGED playlist_uri
          ELSE /\ playlist_uri' = pl
               /\ Set(t, [rec EXCEPT !.playlist_id = pl, !.uris = << >>,
                                      !.i = 0, !.pc = "search"])
    /\ UNCHANGED <<user_access_token, created_ok>>

\* a faulty variant of Collect: the result of every search is appended
CollectAll(uris, uri) == Append(uris, uri)

\* if uri: uris.append(uri)
Collect(uris, uri) == IF uri # NoUri THEN Append(uris, uri) ELSE uris

\* uri = await search_song(song, token) answers for the next song: a match,
\* no items, or the request fails
SearchSong(t, out) ==
    /\ tk[t].pc = "search"
    /\ LET song == tk[t].songs[tk[t].i + 1]
           uri == IF out = "match" THEN TrackUri(song) ELSE NoUri
           rec == AddLog(tk[t], "searchTrack", song,
                         IF out = "error" THEN <<"error">> ELSE uri)
       IN IF out = "error"
          THEN Set(t, Caught(rec, "search failed"))
          ELSE Set(t, [rec EXCEPT !.uris = Collect(@, uri),
                                  !.i = @ + 1,
                                  !.pc = IF tk[t].i + 1 = Len(tk[t].songs)
                                         THEN "add" ELSE "search"])
    /\ UNCHANGED <<user_access_token, playlist_uri, created_ok>>

\* POST /playlists/{playlist_id}/tracks answers
AddTracks(t, status) ==
    /\ tk[t].pc = "add"
    /\ LET rec == AddLog(tk[t], "addTracks", tk[t].uris, status)
       IN IF status # Created
          THEN Set(t, Caught(rec, "Failed to add songs to the playlist."))
          ELSE Set(t, [rec EXCEPT !.pc = "premium"])
    /\ UNCHANGED <<user_access_token, playlist_uri, created_ok>>

\* what GET /v1/me may answer at the end of create_playlist: status 200 with
\* the profile's "product", status 200 with a body that has none (None), a
\* status other than 200 with the service's JSON error body ("denied"), or
\* the request fails or its body is not JSON ("error")
ProfileAnswers == {"premium", "free", None, "denied", "error"}

\* data.get("product"): the status of the response is not read
Product(answer) == IF answer \in {"premium", "free"} THEN answer ELSE None

\* data.get("product") == "premium"
IsPremium(product) == product = "premium"

\* await check_premium_subscription(token) answers
CheckPremium(t, answer) ==
    /\ tk[t].pc = "premium"
    /\ LET rec == AddLog(tk[t], "getProfile", None, answer)
       IN IF answer = "error"
          THEN /\ Set(t, Caught(rec, "profile request failed"))
               /\ UNCHANGED created_ok
          ELSE /\ Set(t, Finish(rec, [Success EXCEPT
                                        !.premium = IsPremium(Product(answer))]))
               /\ created_ok' = TRUE
    /\ UNCHANGED <<user_access_token, playlist_uri>>

\* ------------------------------------------------------------ start_playlist
\* token = await get_user_access_token() is the handler's first statement
StartPlaylist(t) ==
    /\ tk[t].pc = "idle"
    /\ Set(t, GatEnter([IdleTask EXCEPT !.kind = "start",
                                        !.cached = (user_access_token # None)]))
    /\ UNCHANGED <<user_access_token, playlist_uri, created_ok>>

\* a faulty variant of FirstDevice: the last device of the list
LastDevice(devices) == devices[Len(devices)]

\* devices[0]["id"]
FirstDevice(devices) == devices[1]

\* the PUT of start_playlist is sent: data is built from the device chosen
\* and from the global playlist_uri as it is now
SendPlayback(rec, device) ==
    [rec EXCEPT !.device_id = device, !.context_uri = playlist_uri, !.pc = "play"]

\* a faulty variant of ListDevices: the empty list is not looked for
ListDevicesUnguarded(t, devices) ==
    /\ tk[t].pc = "devices"
    /\ Set(t, SendPlayback(AddLog(tk[t], "listDevices", None, devices),
                           IF devices = << >> THEN None ELSE FirstDevice(devices)))
    /\ UNCHANGED <<user_access_token, playlist_uri, created_ok>>

\* GET /me/player/devices answers; with a device, the PUT is sent
ListDevices(t, devices) ==
    /\ tk[t].pc = "devices"
    /\ LET rec == AddLog(tk[t], "listDevices", None, devices)
       IN IF devices = << >>
          THEN Set(t, Finish(rec, Failure("No devices found.")))
          ELSE Set(t, SendPlayback(rec, FirstDevice(devices)))
    /\ UNCHANGED <<user_access_token, playlist_uri, created_ok>>

\* if response.status != 204: raise
PlaybackFailed(status) == status # NoContent

\* PUT /me/player/play answers
StartPlayback(t, status) ==
    /\ tk[t].pc = "play"
    /\ LET rec == AddLog(tk[t], "startPlayback",
                         [context_uri |-> tk[t].context_uri,
                          device_id |-> tk[t].device_id], status)
       IN IF PlaybackFailed(status)
          THEN Set(t, Caught(rec, "Failed to start playback."))
          ELSE Set(t, Finish(rec, Success))
    /\ UNCHANGED <<user_access_token, playlist_uri, created_ok>>

\* ------------------------------------------------------------ time, the caller
Min(a, b) == IF a < b THEN a ELSE b

\* the history counter stops past the waits the code distinguishes: the
\* dwell, and under wait_for the timeout
WaitedCap(rec) == IF rec.kind = "auth" THEN AuthTimeout + 1 ELSE DwellSeconds

\* the pcs of a task that is ready to run: wait_for's new task, and the
\* local bind of site.start()
Ready == {"gat", "site_start"}

\* one second passes: no timer is due and no task is ready to run
Tick ==
    /\ \A t \in Tasks : tk[t].sleep # 0 /\ tk[t].deadline # 0 /\ tk[t].pc \notin Ready
    /\ tk' = [t \in Tasks |->
                [tk[t] EXCEPT
                   !.sleep = IF @ > 0 THEN @ - 1 ELSE @,
                   !.deadline = IF @ > 0 THEN @ - 1 ELSE @,
                   !.waited = IF tk[t].pc \in {"dwell", "poll"}
                              THEN Min(@ + 1, WaitedCap(tk[t])) ELSE @]]
    /\ UNCHANGED <<user_access_token, playlist_uri, created_ok>>

\* the flow manager takes the handler's result; the task can be invoked again
Reset(t) ==
    /\ tk[t].pc = "done"
    /\ Set(t, IdleTask)
    /\ UNCHANGED <<user_access_token, playlist_uri, created_ok>>

\* a handler is invoked with its arguments
Invoke(t, A) ==
    \/ AuthenticateUser(t)
    \/ \E args \in A : CreatePlaylist(t, args)
    \/ StartPlaylist(t)

\* an await of task t completes, a request reaches its listener, or one of
\* its timers fires
Step(t) ==
    \/ AuthTaskStart(t)
    \/ SiteStart(t)
    \/ Wake(t)
    \/ Timeout(t)
    \/ CleanupEnd(t)
    \/ Callback(t)
    \/ \E out \in Tokens \cup {"no_token", "error"} : ExchangeDone(t, out)
    \/ SayDone(t)
    \/ \E ok \in BOOLEAN : GetUserId(t, ok)
    \/ \E st \in PostStatuses, pl \in Playlists : CreateRequest(t, st, pl)
    \/ \E out \in {"match", "none", "error"} : SearchSong(t, out)
    \/ \E st \in PostStatuses : AddTracks(t, st)
    \/ \E p \in ProfileAnswers : CheckPremium(t, p)
    \/ \E d \in DeviceLists : ListDevices(t, d)
    \/ \E st \in PutStatuses : StartPlayback(t, st)

\* the handlers run one at a time, any number of times, on any arguments
Next ==
    \/ Invoke("t1", ArgSets)
    \/ Step("t1")
    \/ Reset("t1")
    \/ Tick

Spec == Init /\ [][Next]_vars

\* two invocations, t1 the one that arrives first, overlapping in any way
NextPair ==
    \/ Invoke("t1", PairArgs)
    \/ tk["t1"].pc # "idle" /\ Invoke("t2", PairArgs)
    \/ \E t \in Tasks : Step(t)
    \/ Tick

SpecPair == Init /\ [][NextPair]_vars

\* ------------------------------------------------------------ properties
\* the requests of kind op in a log, in the order they were sent
Sent(log, op) == SelectSeq(log, LAMBDA e : e.op = op)

\* the pcs of a call that runs an authorization session of its own
SessionPcs == {"site_start", "dwell", "poll", "cleanup"}

TimedOut == "Authentication timed out."

\* C1: at most one authorization session is active at any time: while the
\* listener of one call is bound, no other call sets up a runner and starts
\* a listener of its own.
C1_SingleSession ==
    \A t, u \in Tasks :
        t # u /\ tk[u].site => tk[t].pc # "site_start"

\* C2: a call made once the store holds a credential gets exactly that
\* credential back from get_user_access_token, at once: it sets up no
\* runner, binds no listener, opens no browser and has no token exchange
\* run for it.
C2_CachedShortCircuit ==
    [][\A t \in Tasks :
         tk'[t].cached =>
            /\ tk'[t].runner = "none" /\ ~tk'[t].site /\ tk'[t].inflight = 0
            /\ tk'[t].pc \notin SessionPcs
            /\ Sent(tk'[t].log, "listen") = << >>
            /\ Sent(tk'[t].log, "openAuthUrl") = << >>
            /\ (/\ tk[t].pc \in {"idle", "gat", "say"}
                /\ tk'[t].pc \notin {"idle", "gat", "say"}
                /\ tk'[t].result.state # "raised")
               => tk'[t].token = user_access_token /\ tk'[t].token \in Tokens]_vars

\* witness of C2: a call made with the credential cached has returned it
C2_Witness ==
    \E t \in Tasks :
        /\ tk[t].cached /\ tk[t].kind = "auth" /\ tk[t].pc = "done"
        /\ tk[t].result.success /\ tk[t].result.access_token = user_access_token

\* C3: once get_user_access_token has finished, on any path, the runner it
\* set up is cleaned and its listener is closed.
C3_ListenerReleased ==
    \A t \in Tasks :
        tk[t].pc \notin {"gat", "say"} \cup SessionPcs =>
            tk[t].runner \in {"none", "cleaned"} /\ ~tk[t].site

\* C4: an authenticate_user call that waits with no credential arriving
\* returns the timed-out failure when 20 seconds have passed: never with
\* fewer seconds waited, never still waiting past them, and with no other
\* result than the timed-out one when the store is still empty.
C4_TimeoutBound ==
    \A t \in Tasks :
        tk[t].kind = "auth" =>
            /\ tk[t].result.error = TimedOut => tk[t].waited = AuthTimeout
            /\ tk[t].pc \in {"dwell", "poll"} =>
                   tk[t].deadline >= 0 /\ tk[t].waited + tk[t].deadline = AuthTimeout
            /\ (/\ tk[t].pc = "done" /\ user_access_token = None
                /\ tk[t].result.state = "returned")
               => tk[t].result = Failure(TimedOut) /\ tk[t].waited = AuthTimeout

\* witness of C4: a call waited with no callback and returned timed out
C4_Witness ==
    \E t \in Tasks :
        /\ tk[t].kind = "auth" /\ tk[t].pc = "done" /\ ~tk[t].cb_failed
        /\ user_access_token = None /\ tk[t].result = Failure(TimedOut)

\* C5: an authenticate_user call whose session received a callback that
\* ended without a token does not report the timed-out failure.
C5_RejectedNotTimeout ==
    \A t \in Tasks :
        tk[t].kind = "auth" /\ tk[t].cb_failed /\ tk[t].pc = "done" =>
            tk[t].result.error # TimedOut

\* C6: no exception leaves a handler: every invocation that ends, ends by
\* returning a result.
C6_NoEscape == \A t \in Tasks : tk[t].result.state # "raised"

\* C7: while no create_playlist has returned success, a start_playlist call
\* has returned the no-playlist failure at once, having sent no request,
\* bound no listener and opened no browser.
C7_MissingPlaylistGuard ==
    ~created_ok =>
        \A t \in Tasks :
            tk[t].kind = "start" =>
                /\ tk[t].pc = "done"
                /\ tk[t].result = Failure("No playlist URI found.")
                /\ tk[t].log = << >> /\ tk[t].runner = "none"

\* C8: when no create_playlist call is under way, the current-playlist slot
\* holds a reference only if some create_playlist call has returned success.
C8_SlotOnlyAfterSuccess ==
    (\A t \in Tasks : tk[t].kind = "create" => tk[t].pc = "done") =>
        (playlist_uri # None => created_ok)

\* C9: a create_playlist call whose createPlaylist request returned a status
\* other than 201 has returned a failure and has sent no searchTrack and no
\* addTracks request.
C9_CreationFailureIsolation ==
    \A t \in Tasks :
        \A k \in 1..Len(Sent(tk[t].log, "createPlaylist")) :
            Sent(tk[t].log, "createPlaylist")[k].res # Created =>
                /\ tk[t].pc = "done" /\ tk[t].result.state = "returned"
                /\ ~tk[t].result.success
                /\ Sent(tk[t].log, "searchTrack") = << >>
                /\ Sent(tk[t].log, "addTracks") = << >>

\* witness of C9: a call ended on a createPlaylist answer other than 201
C9_Witness ==
    \E t \in Tasks :
        /\ tk[t].pc = "done"
        /\ Sent(tk[t].log, "createPlaylist") # << >>
        /\ Sent(tk[t].log, "createPlaylist")[1].res # Created

\* the requests of a log that went to the music service
Remote(log) ==
    SelectSeq(log, LAMBDA e : e.op \notin {"listen", "openAuthUrl", "openPlaylist"})

\* the URIs of the searches of a log that matched, in the order sent
Resolved(log) ==
    LET hits == SelectSeq(Sent(log, "searchTrack"), LAMBDA e : e.res # NoUri)
    IN [k \in 1..Len(hits) |-> hits[k].res]

\* every request of the log was answered with success
AllAnswered(log) ==
    \A k \in 1..Len(log) :
        CASE log[k].op = "getProfile" -> log[k].res \in {"ok", "premium", "free"}
          [] log[k].op \in {"createPlaylist", "addTracks"} -> log[k].res = Created
          [] log[k].op = "searchTrack" -> log[k].res # <<"error">>
          [] OTHER -> TRUE

\* C10: addTracks is sent at most once, after one searchTrack per song in
\* the order of the song list, with exactly the URIs of the searches that
\* matched, in that order, duplicates kept; and a call all of whose
\* requests were answered with success returns success, having sent it,
\* whatever number of songs matched.
C10_AddResolvedTracks ==
    \A t \in Tasks :
        tk[t].kind = "create" =>
            LET log == Remote(tk[t].log)
                adds == Sent(log, "addTracks")
                searches == Sent(log, "searchTrack")
            IN /\ Len(adds) <= 1
               /\ adds # << >> =>
                     /\ log[Len(searches) + 3].op = "addTracks"
                     /\ Len(searches) = Len(tk[t].songs)
                     /\ \A k \in 1..Len(searches) :
                            /\ searches[k].arg = tk[t].songs[k]
                            /\ log[k + 2] = searches[k]
                     /\ adds[1].arg = Resolved(log)
               /\ tk[t].pc = "done" /\ tk[t].result.state = "returned"
                  /\ Sent(log, "getProfile") # << >> /\ AllAnswered(log)
                  => tk[t].result.success /\ Len(adds) = 1

\* witness of C10: a call returned success with a song left unresolved, a
\* song resolved, and only the resolved one attached
C10_Witness ==
    \E t \in Tasks :
        /\ tk[t].kind = "create" /\ tk[t].pc = "done" /\ tk[t].result.success
        /\ Len(Sent(tk[t].log, "addTracks")) = 1
        /\ Len(Sent(tk[t].log, "addTracks")[1].arg) = 1
        /\ Len(tk[t].songs) = 2
        /\ Sent(tk[t].log, "searchTrack")[2].res = NoUri

\* C11: a start_playlist call whose listDevices request returned the empty
\* list has returned the failure "No devices found." and has sent no
\* startPlayback request.
C11_NoDeviceShortCircuit ==
    \A t \in Tasks :
        \A k \in 1..Len(Sent(tk[t].log, "listDevices")) :
            Sent(tk[t].log, "listDevices")[k].res = << >> =>
                /\ tk[t].pc = "done"
                /\ tk[t].result = Failure("No devices found.")
                /\ Sent(tk[t].log, "startPlayback") = << >>

\* witness of C11: a start_playlist call ended on an empty device list
C11_Witness ==
    \E t \in Tasks :
        /\ tk[t].kind = "start" /\ tk[t].pc = "done"
        /\ Sent(tk[t].log, "listDevices") # << >>
        /\ Sent(tk[t].log, "listDevices")[1].res = << >>

\* the answers to getProfile that are failures of the request: data["id"]
\* missing from the answer, a status other than 200, a failed exchange
ProfileFailures == {"failed", "denied", "error"}

\* C12: a create_playlist call one of whose getProfile requests failed, the
\* one for the owner or the one for the subscription, has returned a
\* failure and no {success: true, premium: ...}.
C12_FailFastProfile ==
    \A t \in Tasks :
        \A k \in 1..Len(Sent(tk[t].log, "getProfile")) :
            Sent(tk[t].log, "getProfile")[k].res \in ProfileFailures =>
                /\ tk[t].pc = "done" /\ tk[t].result.state = "returned"
                /\ ~tk[t].result.success

\* C13: the credential is write-once: once the store holds a value, no step
\* changes it, whatever number of requests reach the callback route.
C13_WriteOnce ==
    [][user_access_token # None => user_access_token' = user_access_token]_vars

\* C14: every authorization wait is time-bounded: a create_playlist or
\* start_playlist call that waits for the credential does so under a
\* timeout, which ends the wait when no callback arrives.
C14_WaitTimeBounded ==
    \A t \in Tasks :
        tk[t].kind \in {"create", "start"} /\ tk[t].pc \in {"dwell", "poll"} =>
            tk[t].deadline >= 0

\* C15: at every step by which authenticate_user returns a success, the
\* store held a credential before the step, and the access_token of the
\* result is the value the store holds at the return.
C15_ReturnedIsStored ==
    [][\A t \in Tasks :
         (/\ tk'[t].kind = "auth"
          /\ tk[t].pc # "done" /\ tk'[t].pc = "done"
          /\ tk'[t].result.success)
         => /\ user_access_token \in Tokens
            /\ user_access_token' = user_access_token
            /\ tk'[t].result.access_token = user_access_token']_vars

\* witness of C15: an authenticate_user call that ran a session of its own
\* has returned the credential the store holds
C15_Witness ==
    \E t \in Tasks :
        /\ tk[t].kind = "auth" /\ tk[t].pc = "done" /\ ~tk[t].cached
        /\ tk[t].runner = CleanedRunner
        /\ tk[t].result.success /\ tk[t].result.access_token = user_access_token

\* C16: while the result of an authenticate_user call is the timed-out
\* failure, the store holds no credential: none was stored before the
\* timeout fired, and none by a token exchange that was still in flight
\* when the session was torn down.
C16_TimedOutStoreEmpty ==
    \A t \in Tasks :
        tk[t].kind = "auth" /\ tk[t].pc = "done" /\ tk[t].result = Failure(TimedOut)
            => user_access_token = None

\* C17: a start_playlist call that got a non-empty device list sends one
\* startPlayback request, for the first device of the list and the value
\* the current-playlist slot holds when the request is sent, and no second
\* one; it returns success when the answer is 204 and a failure otherwise.
C17_PlaybackRequest ==
    [][\A t \in Tasks :
         LET devs == Sent(tk'[t].log, "listDevices")
             plays == Sent(tk'[t].log, "startPlayback")
         IN /\ Len(plays) <= 1
            /\ tk[t].pc = "devices" /\ tk'[t].pc = "play" =>
                  /\ plays = << >>
                  /\ tk'[t].context_uri = playlist_uri
                  /\ tk'[t].device_id = devs[1].res[1]
            /\ tk[t].pc = "play" /\ tk'[t].pc # "play" =>
                  /\ tk'[t].pc = "done" /\ tk'[t].result.state = "returned"
                  /\ Len(plays) = 1
                  /\ plays[1].arg = [context_uri |-> tk[t].context_uri,
                                     device_id |-> devs[1].res[1]]
                  /\ tk'[t].result.success <=> plays[1].res = NoContent
                  /\ tk'[t].result.success => tk'[t].result = Success]_vars

\* witness of C17: a call returned success on a list of two devices
C17_Witness ==
    \E t \in Tasks :
        /\ tk[t].kind = "start" /\ tk[t].pc = "done" /\ tk[t].result.success
        /\ Len(Sent(tk[t].log, "listDevices")[1].res) = 2
        /\ Sent(tk[t].log, "startPlayback")[1].arg.device_id = "dev2"
        /\ Sent(tk[t].log, "startPlayback")[1].arg.context_uri = playlist_uri

\* C18: a call that runs a session of its own leaves the dwell only when
\* its 8 seconds have passed, whether or not the store was filled earlier,
\* and ends its wait without being cancelled only then or later, at a
\* wake-up that finds the store filled; while it polls, its next wake-up
\* is at most one polling interval away, no second passes at a wake-up
\* that is due, and a wake-up that finds the store filled ends the wait.
C18_DwellThenPoll ==
    [][\A t \in Tasks :
         /\ tk[t].pc = "dwell" /\ tk'[t].pc # "dwell" =>
               tk[t].waited = DwellSeconds /\ tk[t].sleep = 0
         /\ tk[t].pc = "dwell" => tk[t].sleep + tk[t].waited = DwellSeconds
         /\ tk[t].pc \in {"dwell", "poll"} /\ tk'[t].pc = "cleanup"
               /\ ~tk'[t].cancelled =>
               /\ tk[t].waited >= DwellSeconds /\ tk[t].sleep = 0
               /\ user_access_token \in Tokens
         /\ tk[t].pc = "poll" => tk[t].sleep \in 0..PollSeconds
         /\ tk[t].pc \in {"dwell", "poll"} /\ tk'[t].pc = tk[t].pc
               /\ tk'[t].sleep = tk[t].sleep - 1 =>
               tk[t].sleep > 0
         /\ tk[t].pc \in {"dwell", "poll"} /\ tk[t].sleep = 0
               /\ tk'[t].sleep # 0 /\ user_access_token # None =>
               tk'[t].pc = "cleanup"
         /\ tk[t].pc = "cleanup" /\ ~tk[t].cancelled /\ tk'[t].pc # "cleanup" =>
               tk'[t].token = user_access_token /\ tk'[t].token \in Tokens]_vars

\* witness of C18: a call got back a credential that was stored during the
\* dwell, when the 8 seconds had passed
C18_Witness ==
    \E t \in Tasks :
        /\ tk[t].kind = "auth" /\ tk[t].pc = "done" /\ ~tk[t].cached
        /\ tk[t].result.success /\ tk[t].result.access_token \in Tokens
        /\ tk[t].waited = DwellSeconds

\* a step by which the createPlaylist request of task t is answered 201
CreationCompletes(t) == tk[t].pc = "create_req" /\ tk'[t].pc = "search"

\* C19: the current-playlist slot holds the URI of the most recent
\* successful creation: every creation answered 201 puts the URI it
\* returned in the slot, whatever the slot held and whatever other
\* invocations are under way, no other step changes the slot, and a
\* start_playlist call sends its startPlayback for the URI the slot holds.
C19_SlotTracksLastCreation ==
    [][/\ \A t \in Tasks :
            /\ CreationCompletes(t) =>
                  /\ tk'[t].playlist_id \in Playlists
                  /\ playlist_uri' = tk'[t].playlist_id
            /\ tk[t].pc # "play" /\ tk'[t].pc = "play" =>
                  tk'[t].context_uri = playlist_uri /\ playlist_uri \in Playlists
            /\ tk[t].pc = "play" /\ tk'[t].pc = "done" =>
                  Sent(tk'[t].log, "startPlayback")[1].arg.context_uri
                      = tk[t].context_uri
       /\ playlist_uri' # playlist_uri => \E t \in Tasks : CreationCompletes(t)]_vars

\* witness of C19: two overlapping create_playlist calls got two playlists
\* created, and the slot holds the one of the call that was answered last
C19_Witness ==
    /\ tk["t1"].kind = "create" /\ tk["t2"].kind = "create"
    /\ tk["t1"].playlist_id = "pl1" /\ tk["t2"].playlist_id = "pl2"
    /\ tk["t1"].pc = "search" /\ tk["t2"].pc = "done"
    /\ playlist_uri = "pl1"

====
